---- MODULE Spec2Model ----
(***************************************************************************)
(* Model of packages/core/bin/generateComponents.cjs: the model-name       *)
(* normalizer (parseModelName), the schema translator                      *)
(* (parseModelSchemaToRecs and its helpers) and the batch run that fetches *)
(* one schema per manifest model and writes the generated file.            *)
(*                                                                         *)
(* A JavaScript string is a sequence of one-character strings.  A piece of *)
(* generated text is a sequence of tokens whose concatenation is the text. *)
(***************************************************************************)
EXTENDS Integers, Sequences, FiniteSets, TLC

VARIABLES
    pc,           \* position of the script
    argvLength,   \* process.argv.length
    manifest,     \* manifest.models once the manifest is parsed
    index,        \* number of forEach callbacks that have returned
    modelName,    \* modelName of the current callback
    schema,       \* the parsed schema of the current callback
    recs,         \* the outcome of parseModelSchemaToRecs on it
    fileContent,  \* the output buffer, one entry per appended piece
    execLog,      \* the commands given to execSync, in order
    fsLog,        \* the fs calls made, in order
    exitCode,     \* NotExited or the exit status of the process
    stdout,       \* console.log messages
    stderr        \* console.error messages

vars == <<pc, argvLength, manifest, index, modelName, schema, recs,
          fileContent, execLog, fsLog, exitCode, stdout, stderr>>

(***************************************************************************)
(* Bounds of the model.                                                    *)
(***************************************************************************)
MaxLen == 5        \* longest raw model name, in characters
MaxNodes == 4      \* largest schema tree, in nodes
MaxModels == 3     \* longest manifest

(***************************************************************************)
(* JavaScript strings.                                                     *)
(***************************************************************************)
\* the characters raw model names are drawn from
NameChars == {"a", "B", "x", "1", "0", "_", ":"}

Digits == {"0", "1", "2", "3", "4", "5", "6", "7", "8", "9"}

HexDigits == Digits \cup {"a", "b", "c", "d", "e", "f", "A", "B", "C", "D", "E", "F"}

WhiteSpace == {" "}

LowerLetters ==
    <<"a", "b", "c", "d", "e", "f", "g", "h", "i", "j", "k", "l", "m",
      "n", "o", "p", "q", "r", "s", "t", "u", "v", "w", "x", "y", "z">>

UpperLetters ==
    <<"A", "B", "C", "D", "E", "F", "G", "H", "I", "J", "K", "L", "M",
      "N", "O", "P", "Q", "R", "S", "T", "U", "V", "W", "X", "Y", "Z">>

LetterIndex(letters, c) == CHOOSE i \in 1..Len(letters) : letters[i] = c

\* String.prototype.toUpperCase, one character
UpperChar(c) ==
    IF \E i \in 1..Len(LowerLetters) : LowerLetters[i] = c
    THEN UpperLetters[LetterIndex(LowerLetters, c)]
    ELSE c

\* String.prototype.toLowerCase, one character
LowerChar(c) ==
    IF \E i \in 1..Len(UpperLetters) : UpperLetters[i] = c
    THEN LowerLetters[LetterIndex(UpperLetters, c)]
    ELSE c

toUpperCase(s) == [i \in 1..Len(s) |-> UpperChar(s[i])]

toLowerCase(s) == [i \in 1..Len(s) |-> LowerChar(s[i])]

\* String.prototype.charAt: the empty string when the index is out of range
charAt(s, i) == IF i + 1 <= Len(s) THEN <<s[i + 1]>> ELSE <<>>

\* String.prototype.slice(i) with one non-negative argument
slice(s, i) == IF i >= Len(s) THEN <<>> ELSE SubSeq(s, i + 1, Len(s))

StartsWith(s, sep) == Len(s) >= Len(sep) /\ SubSeq(s, 1, Len(sep)) = sep

\* String.prototype.split with a non-empty separator
RECURSIVE SplitFrom(_, _, _)
SplitFrom(s, sep, acc) ==
    IF s = <<>> THEN <<acc>>
    ELSE IF StartsWith(s, sep)
         THEN <<acc>> \o SplitFrom(slice(s, Len(sep)), sep, <<>>)
         ELSE SplitFrom(Tail(s), sep, Append(acc, Head(s)))

split(s, sep) == SplitFrom(s, sep, <<>>)

\* Array.prototype.join("") of an array of strings
RECURSIVE joinEmpty(_)
joinEmpty(parts) ==
    IF parts = <<>> THEN <<>> ELSE Head(parts) \o joinEmpty(Tail(parts))

RECURSIVE TrimStart(_)
TrimStart(s) ==
    IF s # <<>> /\ Head(s) \in WhiteSpace THEN TrimStart(Tail(s)) ELSE s

StripSign(s) == IF s # <<>> /\ Head(s) \in {"+", "-"} THEN Tail(s) ELSE s

\* isNaN(parseInt(s)): parseInt skips leading white space and a sign, takes
\* a 0x prefix as radix 16, and reads the longest prefix of digits; the
\* result is NaN exactly when that prefix is empty.
parseIntIsNaN(s) ==
    LET t == StripSign(TrimStart(s))
    IN  IF StartsWith(t, <<"0", "x">>) \/ StartsWith(t, <<"0", "X">>)
        THEN LET h == slice(t, 2) IN h = <<>> \/ Head(h) \notin HexDigits
        ELSE t = <<>> \/ Head(t) \notin Digits

(***************************************************************************)
(* parseModelName                                                          *)
(***************************************************************************)
parseModelNamePart(part) ==
    IF ~parseIntIsNaN(part) THEN part
    ELSE IF Len(part) <= 3 \/ ~parseIntIsNaN(charAt(part, 0))
         THEN toUpperCase(part)
         ELSE toUpperCase(charAt(part, 0)) \o toLowerCase(slice(part, 1))

\* the parts the map callback is applied to
ModelNameParts(name) ==
    LET segments == split(name, <<":", ":">>)
    IN  split(segments[Len(segments)], <<"_">>)

parseModelName(model) ==
    LET parts == ModelNameParts(model.name)
    IN  joinEmpty([i \in 1..Len(parts) |-> parseModelNamePart(parts[i])])

(***************************************************************************)
(* Schema translation.  A schema node is [type, content]; content carries  *)
(* name, scalar_type, children (of a struct: [name, member_type]) and      *)
(* items (of a tuple, whose content is the array itself).  The result of a *)
(* call is [kind, str, error, types, customTypes]: kind "string" with the  *)
(* returned text in str, kind "undefined" when the call returns no value,  *)
(* kind "throw" when it raises error; types and customTypes are the two    *)
(* arrays as the call leaves them.                                         *)
(***************************************************************************)
\* the value of a property the JSON document does not have
Undefined == <<"<undefined>">>

Chars_bool == <<"b", "o", "o", "l">>
Chars_u8 == <<"u", "8">>
Chars_u16 == <<"u", "1", "6">>
Chars_u32 == <<"u", "3", "2">>
Chars_u64 == <<"u", "6", "4">>
Chars_usize == <<"u", "s", "i", "z", "e">>
Chars_u128 == <<"u", "1", "2", "8">>
Chars_u256 == <<"u", "2", "5", "6">>
Chars_felt252 == <<"f", "e", "l", "t", "2", "5", "2">>
Chars_contractaddress ==
    <<"c", "o", "n", "t", "r", "a", "c", "t", "a", "d", "d", "r", "e", "s", "s">>
Chars_constructor ==
    <<"c", "o", "n", "s", "t", "r", "u", "c", "t", "o", "r">>
Chars_enum == <<"e", "n", "u", "m">>

\* the own properties of the object literal
cairoToRecsTypeKeys ==
    {Chars_bool, Chars_u8, Chars_u16, Chars_u32, Chars_u64, Chars_usize,
     Chars_u128, Chars_u256, Chars_felt252, Chars_contractaddress}

cairoToRecsTypeOwn(key) ==
    CASE key = Chars_bool -> "RecsType.Boolean"
      [] key \in {Chars_u8, Chars_u16, Chars_u32, Chars_u64, Chars_usize}
           -> "RecsType.Number"
      [] key \in {Chars_u128, Chars_u256, Chars_felt252, Chars_contractaddress}
           -> "RecsType.BigInt"

\* cairoToRecsType[key]: a property read of a plain object, so a key the
\* literal lacks is looked up on Object.prototype before it is undefined.
\* The value is given as the text a template literal makes of it.
cairoToRecsType(key) ==
    IF key \in cairoToRecsTypeKeys
    THEN [nullish |-> FALSE, str |-> cairoToRecsTypeOwn(key)]
    ELSE IF key = Chars_constructor
         THEN [nullish |-> FALSE, str |-> "function Object() { [native code] }"]
         ELSE [nullish |-> TRUE, str |-> "undefined"]

Returned(str, types, customTypes) ==
    [kind |-> "string", str |-> str, error |-> "",
     types |-> types, customTypes |-> customTypes]

ReturnedNothing(types, customTypes) ==
    [kind |-> "undefined", str |-> <<>>, error |-> "",
     types |-> types, customTypes |-> customTypes]

Thrown(error, types, customTypes) ==
    [kind |-> "throw", str |-> <<>>, error |-> error,
     types |-> types, customTypes |-> customTypes]

\* Array.prototype.join(", ") of an array of texts
RECURSIVE joinComma(_)
joinComma(strs) ==
    IF strs = <<>> THEN <<>>
    ELSE IF Len(strs) = 1 THEN Head(strs)
         ELSE Head(strs) \o <<", ">> \o joinComma(Tail(strs))

\* variant: the scalar type is put at the front of types
parseSchemaPrimitive_unshift(content, types) ==
    IF content.scalar_type = Undefined
    THEN Thrown("TypeError", types, <<>>)
    ELSE LET scalarType == toLowerCase(content.scalar_type)
             entry == cairoToRecsType(scalarType)
         IN  Returned(<<IF entry.nullish THEN "RecsType.String" ELSE entry.str>>,
                      <<scalarType>> \o types, <<>>)

parseSchemaPrimitive(content, types) ==
    IF content.scalar_type = Undefined
    THEN Thrown("TypeError", types, <<>>)
    ELSE LET scalarType == toLowerCase(content.scalar_type)
             entry == cairoToRecsType(scalarType)
         IN  Returned(<<IF entry.nullish THEN "RecsType.String" ELSE entry.str>>,
                      Append(types, scalarType), <<>>)

parseSchemaEnum(content) == <<"RecsType.Number">>

RECURSIVE parseModelSchemaToRecsImpl(_, _, _)
RECURSIVE parseSchemaStruct(_, _, _)
RECURSIVE parseSchemaTuple(_, _, _)
RECURSIVE MapMembers(_, _, _, _)
RECURSIVE MapItems(_, _, _, _)

\* variant: the name of a struct is pushed after its children are translated
parseModelSchemaToRecsImpl_pushAfter(node, types, customTypes) ==
    LET type == node.type
        content == node.content
    IN  IF type = "primitive"
        THEN LET r == parseSchemaPrimitive(content, types)
             IN  [r EXCEPT !.customTypes = customTypes]
        ELSE IF type = "struct"
        THEN LET r == parseSchemaStruct(content, types, customTypes)
             IN  [r EXCEPT !.customTypes = Append(r.customTypes, content.name)]
        ELSE IF type = "enum"
        THEN Returned(parseSchemaEnum(content),
                      Append(types, Chars_enum), Append(customTypes, content.name))
        ELSE IF type = "tuple"
        THEN parseSchemaTuple(content, types, customTypes)
        ELSE ReturnedNothing(types, customTypes)

parseModelSchemaToRecsImpl(node, types, customTypes) ==
    LET type == node.type
        content == node.content
    IN  IF type = "primitive"
        THEN LET r == parseSchemaPrimitive(content, types)
             IN  [r EXCEPT !.customTypes = customTypes]
        ELSE IF type = "struct"
        THEN parseSchemaStruct(content, types, Append(customTypes, content.name))
        ELSE IF type = "enum"
        THEN Returned(parseSchemaEnum(content),
                      Append(types, Chars_enum), Append(customTypes, content.name))
        ELSE IF type = "tuple"
        THEN parseSchemaTuple(content, types, customTypes)
        ELSE ReturnedNothing(types, customTypes)

\* content.children.map(...): the callbacks run in array order on the shared
\* arrays; a callback that throws ends the map
MapMembers(children, done, types, customTypes) ==
    IF children = <<>> THEN Returned(done, types, customTypes)
    ELSE LET member == Head(children)
             r == parseModelSchemaToRecsImpl(member.member_type, types, customTypes)
             text == <<member.name, ": ">>
                     \o (IF r.kind = "undefined" THEN <<"undefined">> ELSE r.str)
         IN  IF r.kind = "throw" THEN r
             ELSE MapMembers(Tail(children), Append(done, text),
                             r.types, r.customTypes)

parseSchemaStruct(content, types, customTypes) ==
    LET m == MapMembers(content.children, <<>>, types, customTypes)
    IN  IF m.kind = "throw" THEN m
        ELSE Returned(<<"{ ">> \o joinComma(m.str) \o <<" }">>,
                      m.types, m.customTypes)

\* content.map(...) of a tuple; join renders an undefined element as ""
MapItems(items, done, types, customTypes) ==
    IF items = <<>> THEN Returned(done, types, customTypes)
    ELSE LET r == parseModelSchemaToRecsImpl(Head(items), types, customTypes)
             text == IF r.kind = "undefined" THEN <<>> ELSE r.str
         IN  IF r.kind = "throw" THEN r
             ELSE MapItems(Tail(items), Append(done, text),
                           r.types, r.customTypes)

parseSchemaTuple(content, types, customTypes) ==
    LET m == MapItems(content.items, <<>>, types, customTypes)
    IN  IF m.kind = "throw" THEN m
        ELSE Returned(<<"[ ">> \o joinComma(m.str) \o <<" ]">>,
                      m.types, m.customTypes)

\* variant: no check of the root type
parseModelSchemaToRecs_anyRoot(node, types, customTypes) ==
    LET r == parseModelSchemaToRecsImpl(node, types, customTypes)
    IN  [r EXCEPT !.customTypes = IF node.type = "struct" THEN Tail(@) ELSE @]

parseModelSchemaToRecs(node, types, customTypes) ==
    IF node.type # "struct"
    THEN Thrown("unsupported root schema type", types, customTypes)
    ELSE parseSchemaStruct(node.content, types, customTypes)

(***************************************************************************)
(* The schema documents and raw names the checks range over.               *)
(***************************************************************************)
Chars_U8 == <<"U", "8">>
Chars_z == <<"z">>

\* scalar_type values: table keys, a key in upper case, a name not in the
\* table, a name Object.prototype defines, and a missing property
ScalarTypes == {Chars_u8, Chars_U8, Chars_z, Chars_constructor, Undefined}

StructNames == {"Position", "Vec2"}

MemberNames == <<"a", "b", "c", "d", "e", "f", "g", "h">>

Primitive(scalar) ==
    [type |-> "primitive",
     content |-> [name |-> "", scalar_type |-> scalar,
                  children |-> <<>>, items |-> <<>>]]

Enum(name) ==
    [type |-> "enum",
     content |-> [name |-> name, scalar_type |-> Undefined,
                  children |-> <<>>, items |-> <<>>]]

Struct(name, members) ==
    [type |-> "struct",
     content |-> [name |-> name, scalar_type |-> Undefined,
                  children |-> [i \in 1..Len(members) |->
                                  [name |-> MemberNames[i],
                                   member_type |-> members[i]]],
                  items |-> <<>>]]

Tuple(members) ==
    [type |-> "tuple",
     content |-> [name |-> "", scalar_type |-> Undefined,
                  children |-> <<>>, items |-> members]]

\* a node of a kind the dispatch does not know
OtherKind ==
    [type |-> "array",
     content |-> [name |-> "", scalar_type |-> Undefined,
                  children |-> <<>>, items |-> <<>>]]

\* a node before its children are given
NodeLabels ==
    {Primitive(t) : t \in ScalarTypes} \cup {Enum("Direction"), OtherKind}
    \cup {Struct(nm, <<>>) : nm \in StructNames} \cup {Tuple(<<>>)}

WithChildren(label, members) ==
    IF label.type = "struct" THEN Struct(label.content.name, members)
    ELSE IF label.type = "tuple" THEN Tuple(members)
    ELSE label

\* A tree of n nodes is given by the labels of its nodes, numbered in
\* document order, and the number of the parent of each node (0 for the
\* root): the parent of node j is node j - 1 or one of its ancestors.
RECURSIVE AncestorsOrSelf(_, _)
AncestorsOrSelf(parents, j) ==
    IF j = 0 THEN {} ELSE {j} \cup AncestorsOrSelf(parents, parents[j])

ParentMaps(n) ==
    {f \in [1..n -> 0..(n - 1)] :
        /\ f[1] = 0
        /\ \A j \in 2..n : f[j] \in AncestorsOrSelf(f, j - 1)}

RECURSIVE Ascending(_)
Ascending(S) ==
    IF S = {} THEN <<>>
    ELSE LET least == CHOOSE x \in S : \A y \in S : x <= y
         IN  <<least>> \o Ascending(S \ {least})

RECURSIVE BuildNode(_, _, _)
BuildNode(labels, parents, i) ==
    LET below == Ascending({j \in DOMAIN parents : parents[j] = i})
    IN  WithChildren(labels[i],
                     [k \in 1..Len(below) |-> BuildNode(labels, parents, below[k])])

\* only a struct or a tuple has children
WellFormed(labels, parents) ==
    \A j \in DOMAIN parents :
        parents[j] # 0 => labels[parents[j]].type \in {"struct", "tuple"}

RawNames == UNION {[1..n -> NameChars] : n \in 0..MaxLen}

NoSchema ==
    [type |-> "none",
     content |-> [name |-> "", scalar_type |-> Undefined,
                  children |-> <<>>, items |-> <<>>]]

NoRecs ==
    [kind |-> "none", str |-> <<>>, error |-> "",
     types |-> <<>>, customTypes |-> <<>>]

(***************************************************************************)
(* The run of the script.                                                  *)
(***************************************************************************)
NotExited == -1

rpcUrl == "argv[4]"

worldAddress == "argv[5]"

\* the schema documents and model names a run is checked with
RunSchemas ==
    {Struct("Position", <<Primitive(Chars_u8), Struct("Vec2", <<Primitive(Chars_U8)>>)>>),
     Struct("Moves", <<Enum("Direction")>>),
     Struct("Position", <<Primitive(Chars_u8), Primitive(Undefined)>>),
     Enum("Direction"), Primitive(Chars_u8), Tuple(<<Primitive(Chars_u8)>>),
     OtherKind}

RunModelNames == {<<"a", ":", ":", "B", "a", "x", "a">>, <<"a", "_", "1", "a">>, Undefined}

Manifests ==
    UNION {[1..n -> [name : RunModelNames]] : n \in 0..MaxModels}

\* what execSync of the schema command can come back with
ExecOutcomes ==
    {[status |-> "failed", json |-> FALSE, document |-> NoSchema],
     [status |-> "ok", json |-> FALSE, document |-> NoSchema]}
    \cup {[status |-> "ok", json |-> TRUE, document |-> d] : d \in RunSchemas}

ManifestLoadOutcomes == {"ok", "readFileSync throws", "JSON.parse throws", "no models array"}

Piece(text) ==
    [text |-> text, name |-> <<>>, recsTypeObject |-> <<>>,
     types |-> <<>>, customTypes |-> <<>>]

\* JSON.stringify of an array of strings held as character sequences
RECURSIVE stringifyItems(_)
stringifyItems(arr) ==
    IF arr = <<>> THEN <<>>
    ELSE <<"\"">> \o Head(arr) \o <<"\"">>
         \o (IF Len(arr) > 1 THEN <<",">> ELSE <<>>) \o stringifyItems(Tail(arr))

JSONstringify(arr) == <<"[">> \o stringifyItems(arr) \o <<"]">>

\* the text appended for one model (lines 89-103), by its four holes
Block(name, r) ==
    [text |-> "block", name |-> name, recsTypeObject |-> r.str,
     types |-> JSONstringify(r.types),
     customTypes |-> JSONstringify([i \in 1..Len(r.customTypes) |-> <<r.customTypes[i]>>])]

SchemaCommand(name) ==
    [cmd |-> "sozo model schema", modelName |-> name,
     rpcUrl |-> rpcUrl, world |-> worldAddress]

SozoCheckCommand ==
    [cmd |-> "command -v sozo", modelName |-> <<>>, rpcUrl |-> "", world |-> ""]

Exit(code) == pc' = "exited" /\ exitCode' = code

\* variant: the missing tool is reported with status 1
SozoMissing_exit1 ==
    /\ stderr' = Append(stderr, "unable to find sozo")
    /\ Exit(1)

\* catch (e) { console.error("unable to find `sozo` ..."); process.exit(0) }
SozoMissing ==
    /\ stderr' = Append(stderr, "unable to find sozo")
    /\ Exit(0)

\* variant: the error is logged and forEach goes on with the next model
CatchHandler_continue ==
    /\ stderr' = Append(stderr, "error when fetching schema")
    /\ index' = index + 1
    /\ pc' = "forEach"
    /\ UNCHANGED <<fileContent, exitCode>>

\* catch (e) { console.error("error when fetching schema ..."); process.exit(0) }
CatchHandler ==
    /\ stderr' = Append(stderr, "error when fetching schema")
    /\ Exit(0)
    /\ UNCHANGED <<fileContent, index>>

\* variant: the block is put in front of the buffer
AppendBlock_front(r) ==
    /\ fileContent' = <<Block(modelName, r)>> \o fileContent
    /\ index' = index + 1
    /\ pc' = "forEach"
    /\ UNCHANGED <<stderr, exitCode>>

\* the thirteen appends of the try block, and the return of the callback
AppendBlock(r) ==
    /\ fileContent' = Append(fileContent, Block(modelName, r))
    /\ index' = index + 1
    /\ pc' = "forEach"
    /\ UNCHANGED <<stderr, exitCode>>

\* if (process.argv.length !== 6) { usage; process.exit(1) }
CheckArguments ==
    /\ pc = "arguments"
    /\ IF argvLength # 6
       THEN /\ stdout' = Append(stdout, "Usage")
            /\ Exit(1)
       ELSE /\ pc' = "sozo"
            /\ UNCHANGED <<stdout, exitCode>>
    /\ UNCHANGED <<argvLength, manifest, index, modelName, schema, recs,
                   fileContent, execLog, fsLog, stderr>>

\* try { execSync(`command -v sozo`) } catch { ...; process.exit(0) }
CheckSozo ==
    /\ pc = "sozo"
    /\ execLog' = Append(execLog, SozoCheckCommand)
    /\ \E found \in BOOLEAN :
         IF found
         THEN /\ pc' = "manifest"
              /\ UNCHANGED <<stderr, exitCode>>
         ELSE SozoMissing
    /\ UNCHANGED <<argvLength, manifest, index, modelName, schema, recs,
                   fileContent, fsLog, stdout>>

\* readFileSync, JSON.parse, the three header appends and the entry into
\* forEach; an exception here is caught by nothing and ends the process
\* with status 1
LoadManifest ==
    /\ pc = "manifest"
    /\ fsLog' = Append(fsLog, [op |-> "readFileSync", content |-> <<>>])
    /\ \E outcome \in ManifestLoadOutcomes :
         IF outcome = "ok"
         THEN /\ \E m \in Manifests : manifest' = m
              /\ fileContent' = <<Piece("comment"), Piece("import"), Piece("open")>>
              /\ index' = 0
              /\ pc' = "forEach"
              /\ UNCHANGED <<stderr, exitCode>>
         ELSE /\ stderr' = Append(stderr, "uncaught exception")
              /\ Exit(1)
              /\ UNCHANGED <<manifest, fileContent, index>>
    /\ UNCHANGED <<argvLength, modelName, schema, recs, execLog, stdout>>

\* the callback up to the call of execSync: parseModelName is outside the
\* try block, and reading .split of a missing name throws
CallbackStart ==
    /\ pc = "forEach"
    /\ index < Len(manifest)
    /\ LET model == manifest[index + 1]
       IN  IF model.name = Undefined
           THEN /\ stderr' = Append(stderr, "uncaught exception")
                /\ Exit(1)
                /\ UNCHANGED <<modelName, execLog>>
           ELSE /\ modelName' = parseModelName(model)
                /\ execLog' = Append(execLog, SchemaCommand(parseModelName(model)))
                /\ pc' = "execSync"
                /\ UNCHANGED <<stderr, exitCode>>
    /\ schema' = NoSchema
    /\ recs' = NoRecs
    /\ UNCHANGED <<argvLength, manifest, index, fileContent, fsLog, stdout>>

\* execSync returns or throws; the rest of the try block and its catch
CallbackFinish ==
    /\ pc = "execSync"
    /\ \E outcome \in ExecOutcomes :
         IF outcome.status = "failed" \/ ~outcome.json
         THEN /\ CatchHandler
              /\ UNCHANGED <<schema, recs>>
         ELSE LET r == parseModelSchemaToRecs(outcome.document, <<>>, <<>>)
              IN  /\ schema' = outcome.document
                  /\ recs' = r
                  /\ IF r.kind = "throw" THEN CatchHandler ELSE AppendBlock(r)
    /\ UNCHANGED <<argvLength, manifest, modelName, execLog, fsLog, stdout>>

\* after forEach: the closing append and the call of fs.writeFile
WriteFile ==
    /\ pc = "forEach"
    /\ index = Len(manifest)
    /\ fileContent' = Append(fileContent, Piece("close"))
    /\ fsLog' = Append(fsLog, [op |-> "writeFile",
                               content |-> Append(fileContent, Piece("close"))])
    /\ pc' = "writeFile"
    /\ UNCHANGED <<argvLength, manifest, index, modelName, schema, recs,
                   execLog, exitCode, stdout, stderr>>

\* the writeFile callback, after which the event loop is empty
WriteFileCallback ==
    /\ pc = "writeFile"
    /\ \E err \in BOOLEAN :
         IF err
         THEN /\ stderr' = Append(stderr, "error writing file")
              /\ UNCHANGED stdout
         ELSE /\ stdout' = Append(stdout, "Components file generated successfully")
              /\ UNCHANGED stderr
    /\ Exit(0)
    /\ UNCHANGED <<argvLength, manifest, index, modelName, schema, recs,
                   fileContent, execLog, fsLog>>

Init ==
    /\ pc = "arguments"
    /\ argvLength \in {5, 6, 7}
    /\ manifest = <<>>
    /\ index = 0
    /\ modelName = <<>>
    /\ schema = NoSchema
    /\ recs = NoRecs
    /\ fileContent = <<>>
    /\ execLog = <<>>
    /\ fsLog = <<>>
    /\ exitCode = NotExited
    /\ stdout = <<>>
    /\ stderr = <<>>

Next ==
    \/ CheckArguments
    \/ CheckSozo
    \/ LoadManifest
    \/ CallbackStart
    \/ CallbackFinish
    \/ WriteFile
    \/ WriteFileCallback

Spec == Init /\ [][Next]_vars

(***************************************************************************)
(* parseModelName applied to every raw name within the bound.              *)
(***************************************************************************)
InitName ==
    /\ pc = "name"
    /\ manifest \in {<<[name |-> n]>> : n \in RawNames}
    /\ argvLength = 6
    /\ index = 0
    /\ modelName = <<>>
    /\ schema = NoSchema
    /\ recs = NoRecs
    /\ fileContent = <<>>
    /\ execLog = <<>>
    /\ fsLog = <<>>
    /\ exitCode = NotExited
    /\ stdout = <<>>
    /\ stderr = <<>>

ApplyParseModelName ==
    /\ pc = "name"
    /\ modelName' = parseModelName(manifest[1])
    /\ pc' = "named"
    /\ UNCHANGED <<argvLength, manifest, index, schema, recs, fileContent,
                   execLog, fsLog, exitCode, stdout, stderr>>

NextName == ApplyParseModelName

SpecName == InitName /\ [][NextName]_vars

(***************************************************************************)
(* parseModelSchemaToRecs applied to every schema within the bound, on the *)
(* empty arrays the forEach callback hands it.                             *)
(***************************************************************************)
InitSchema ==
    /\ pc = "schema"
    /\ \E n \in 1..MaxNodes :
         \E parents \in ParentMaps(n) :
            \E labels \in [1..n -> NodeLabels] :
               /\ WellFormed(labels, parents)
               /\ schema = BuildNode(labels, parents, 1)
    /\ argvLength = 6
    /\ manifest = <<>>
    /\ index = 0
    /\ modelName = <<>>
    /\ recs = NoRecs
    /\ fileContent = <<>>
    /\ execLog = <<>>
    /\ fsLog = <<>>
    /\ exitCode = NotExited
    /\ stdout = <<>>
    /\ stderr = <<>>

ApplyParseModelSchemaToRecs ==
    /\ pc = "schema"
    /\ recs' = parseModelSchemaToRecs(schema, <<>>, <<>>)
    /\ pc' = "translated"
    /\ UNCHANGED <<argvLength, manifest, index, modelName, schema, fileContent,
                   execLog, fsLog, exitCode, stdout, stderr>>

NextSchema == ApplyParseModelSchemaToRecs

SpecSchema == InitSchema /\ [][NextSchema]_vars

(***************************************************************************)
(* Properties of parseModelName, under SpecName.                           *)
(***************************************************************************)
RawParts == ModelNameParts(manifest[1].name)

RECURSIVE LenSum(_, _)
LenSum(parts, n) == IF n = 0 THEN 0 ELSE Len(parts[n]) + LenSum(parts, n - 1)

\* every rule keeps the length of a part, so the text emitted for part i is
\* the slice of modelName at the offset of part i
EmittedPart(i) ==
    SubSeq(modelName, LenSum(RawParts, i - 1) + 1, LenSum(RawParts, i))

IsIntegerLiteral(part) ==
    LET body == StripSign(part)
    IN  body # <<>> /\ \A i \in 1..Len(body) : body[i] \in Digits

\* C5: every part that begins with a digit, is longer than 3 and is not
\* entirely an integer literal is emitted fully uppercased.
C5_DigitFirstUppercased ==
    pc = "named" =>
        \A i \in 1..Len(RawParts) :
            LET part == RawParts[i]
            IN  (Len(part) > 3 /\ part[1] \in Digits /\ ~IsIntegerLiteral(part))
                => EmittedPart(i) = toUpperCase(part)

\* C6: every part of length at most 3 that is not entirely an integer
\* literal (a part that merely begins with a digit included) is emitted
\* fully uppercased rather than passed through unchanged.
C6_ShortPartUppercased ==
    pc = "named" =>
        \A i \in 1..Len(RawParts) :
            LET part == RawParts[i]
            IN  (Len(part) <= 3 /\ ~IsIntegerLiteral(part))
                => EmittedPart(i) = toUpperCase(part)

(***************************************************************************)
(* Properties of the schema translation, under SpecSchema.  The nodes of a *)
(* schema are named by their paths, the sequences of child positions that  *)
(* lead to them from the root; document order is the order of the paths.   *)
(***************************************************************************)
ChildNodes(node) ==
    IF node.type = "struct"
    THEN [i \in 1..Len(node.content.children) |-> node.content.children[i].member_type]
    ELSE IF node.type = "tuple" THEN node.content.items ELSE <<>>

RECURSIVE PathsOf(_)
PathsOf(node) ==
    {<<>>} \cup UNION {{<<i>> \o p : p \in PathsOf(ChildNodes(node)[i])} :
                       i \in 1..Len(ChildNodes(node))}

RECURSIVE NodeAt(_, _)
NodeAt(node, path) ==
    IF path = <<>> THEN node ELSE NodeAt(ChildNodes(node)[Head(path)], Tail(path))

\* p is q or comes before q in document order (a node before its children,
\* children from left to right)
RECURSIVE PathLeq(_, _)
PathLeq(p, q) ==
    \/ p = <<>>
    \/ /\ q # <<>>
       /\ \/ Head(p) < Head(q)
          \/ Head(p) = Head(q) /\ PathLeq(Tail(p), Tail(q))

IsProperPrefix(p, q) == Len(p) < Len(q) /\ SubSeq(q, 1, Len(p)) = p

RECURSIVE InDocumentOrder(_)
InDocumentOrder(paths) ==
    IF paths = {} THEN <<>>
    ELSE LET first == CHOOSE p \in paths : \A q \in paths : PathLeq(p, q)
         IN  <<first>> \o InDocumentOrder(paths \ {first})

Translated == pc = "translated" /\ recs.kind = "string"

KnownKinds == {"primitive", "struct", "enum", "tuple"}

\* the primitive and enum nodes, in document order
ScalarPaths ==
    InDocumentOrder({p \in PathsOf(schema) : NodeAt(schema, p).type \in {"primitive", "enum"}})

\* the struct and enum nodes below the root
CustomPathsBelowRoot ==
    {p \in PathsOf(schema) : p # <<>> /\ NodeAt(schema, p).type \in {"struct", "enum"}}

\* the struct and enum nodes, the root included
CustomPaths ==
    {p \in PathsOf(schema) : NodeAt(schema, p).type \in {"struct", "enum"}}

\* the number of nodes of a set that are p or come before it
Rank(paths, p) == Cardinality({q \in paths : PathLeq(q, p)})

\* the tokens of the returned text that stand for a scalar
Punctuation == {"{ ", " }", "[ ", " ]", ", ", ": "}

MemberNameSet == {MemberNames[i] : i \in 1..Len(MemberNames)}

ValueTokens == SelectSeq(recs.str, LAMBDA t : t \notin Punctuation \cup MemberNameSet)

NameTokens == SelectSeq(recs.str, LAMBDA t : t \in MemberNameSet)

\* the member names of the struct nodes, in document order of the members
MemberPaths ==
    InDocumentOrder({p \in PathsOf(schema) :
                       p # <<>> /\ NodeAt(schema, SubSeq(p, 1, Len(p) - 1)).type = "struct"})

\* C4 as stated: every struct node, the root included, has its name in
\* customTypes at its document-order position among the struct and enum
\* nodes, hence before the names of the structs nested in it.
C4_EveryStructNamePreOrder ==
    Translated =>
        \A p \in CustomPaths :
            NodeAt(schema, p).type = "struct" =>
                /\ Rank(CustomPaths, p) <= Len(recs.customTypes)
                /\ recs.customTypes[Rank(CustomPaths, p)] = NodeAt(schema, p).content.name

\* C4 amended: every struct node below the root has its name in customTypes
\* at its document-order position among the struct and enum nodes below the
\* root, hence before the names of the structs nested in it; the name of
\* the root struct is not recorded.
C4_NestedStructNamePreOrder ==
    Translated =>
        /\ Len(recs.customTypes) = Cardinality(CustomPathsBelowRoot)
        /\ \A p \in CustomPathsBelowRoot :
               NodeAt(schema, p).type = "struct" =>
                   recs.customTypes[Rank(CustomPathsBelowRoot, p)]
                       = NodeAt(schema, p).content.name

\* a struct nested in a struct nested in the root, with different names
C4_Witness ==
    /\ Translated
    /\ \E p, q \in CustomPathsBelowRoot :
          /\ IsProperPrefix(p, q)
          /\ NodeAt(schema, p).type = "struct"
          /\ NodeAt(schema, q).type = "struct"
          /\ NodeAt(schema, p).content.name # NodeAt(schema, q).content.name
          /\ recs.customTypes = <<NodeAt(schema, p).content.name,
                                  NodeAt(schema, q).content.name>>

\* C7: after a translation, types lists the primitive and enum nodes in
\* document order (lowercased scalar_type, "enum"), duplicates kept, and the
\* returned text lists the members and the scalars in that same order.
C7_TraversalOrder ==
    Translated =>
        /\ recs.types =
             [i \in 1..Len(ScalarPaths) |->
                LET n == NodeAt(schema, ScalarPaths[i])
                IN  IF n.type = "enum" THEN Chars_enum
                    ELSE toLowerCase(n.content.scalar_type)]
        /\ NameTokens =
             [i \in 1..Len(MemberPaths) |->
                MemberNames[MemberPaths[i][Len(MemberPaths[i])]]]
        /\ (\A p \in PathsOf(schema) : NodeAt(schema, p).type \in KnownKinds)
             => /\ Len(ValueTokens) = Len(ScalarPaths)
                /\ \A i \in 1..Len(ScalarPaths) :
                      (ValueTokens[i] = "RecsType.Number")
                        <=> (recs.types[i] \in {Chars_u8, Chars_enum})

\* a tuple of two different primitives
C7_Witness ==
    /\ Translated
    /\ Len(recs.types) = 2
    /\ recs.types[1] # recs.types[2]
    /\ \E p \in PathsOf(schema) :
          /\ NodeAt(schema, p).type = "tuple"
          /\ Len(ChildNodes(NodeAt(schema, p))) = 2
          /\ NodeAt(schema, p \o <<1>>).type = "primitive"
          /\ NodeAt(schema, p \o <<2>>).type = "primitive"
          /\ NodeAt(schema, p \o <<1>>).content.scalar_type
               # NodeAt(schema, p \o <<2>>).content.scalar_type

\* C8: every primitive node puts its lowercased scalar_type in types and is
\* rendered as the table entry of that key when it is one of the ten keys,
\* as RecsType.String otherwise.
C8_PrimitiveMapping ==
    (Translated /\ \A p \in PathsOf(schema) : NodeAt(schema, p).type \in KnownKinds) =>
        /\ Len(ValueTokens) = Len(ScalarPaths)
        /\ Len(recs.types) = Len(ScalarPaths)
        /\ \A i \in 1..Len(ScalarPaths) :
              LET n == NodeAt(schema, ScalarPaths[i])
                  key == toLowerCase(n.content.scalar_type)
              IN  n.type = "primitive" =>
                      /\ recs.types[i] = key
                      /\ ValueTokens[i] =
                           IF key \in cairoToRecsTypeKeys
                           THEN cairoToRecsTypeOwn(key) ELSE "RecsType.String"

\* C10: a node of unknown kind below a struct root makes the translation
\* throw; no text is returned for the model.
C10_UnknownKindThrows ==
    (/\ pc = "translated"
     /\ schema.type = "struct"
     /\ \E p \in PathsOf(schema) : NodeAt(schema, p).type \notin KnownKinds)
        => recs.kind = "throw"

(***************************************************************************)
(* Properties of the run, under Spec.                                      *)
(***************************************************************************)
SchemaCommands == SelectSeq(execLog, LAMBDA c : c.cmd = "sozo model schema")

Blocks == SelectSeq(fileContent, LAMBDA b : b.text = "block")

Writes == SelectSeq(fsLog, LAMBDA f : f.op = "writeFile")

Header == <<Piece("comment"), Piece("import"), Piece("open")>>

Logged(log, message) == \E i \in 1..Len(log) : log[i] = message

FetchFailed == Logged(stderr, "error when fetching schema")

\* C1: once the fetch, the JSON parse or the translation of model k has
\* failed, the process has exited; the schema commands issued are those of
\* models 1..k, the buffer holds the blocks of models 1..k-1 and no closing
\* piece, nothing was written, and none of this changes afterwards.
C1_FailFast ==
    /\ [](FetchFailed =>
            /\ pc = "exited"
            /\ Len(SchemaCommands) = index + 1
            /\ fileContent = Header \o Blocks
            /\ Len(Blocks) = index
            /\ Writes = <<>>)
    /\ [][FetchFailed => UNCHANGED <<execLog, fileContent, fsLog>>]_vars

\* a translation that throws half way through the second of three models
C1_Witness ==
    /\ FetchFailed
    /\ index = 1
    /\ Len(manifest) = 3
    /\ recs.kind = "throw"
    /\ recs.error = "TypeError"
    /\ recs.types # <<>>

\* C2: while no model has failed, the schema commands issued are those of
\* the first models of the manifest, one each, with their normalized names
\* and in manifest order; a command is issued only when the blocks of all
\* models before it are in the buffer; the blocks follow the header in
\* manifest order; and the file is written once, after the block of the
\* last model and the closing piece.
C2_SequentialManifestOrder ==
    (pc \in {"forEach", "execSync", "writeFile"} \/ (pc = "exited" /\ Writes # <<>>)) =>
        /\ Len(SchemaCommands) = index + (IF pc = "execSync" THEN 1 ELSE 0)
        /\ \A i \in 1..Len(SchemaCommands) :
              SchemaCommands[i] =
                [cmd |-> "sozo model schema",
                 modelName |-> parseModelName(manifest[i]),
                 rpcUrl |-> rpcUrl, world |-> worldAddress]
        /\ Len(Blocks) = index
        /\ \A i \in 1..Len(Blocks) : Blocks[i].name = parseModelName(manifest[i])
        /\ IF pc \in {"forEach", "execSync"}
           THEN /\ fileContent = Header \o Blocks
                /\ Writes = <<>>
           ELSE /\ index = Len(manifest)
                /\ fileContent = Header \o Blocks \o <<Piece("close")>>
                /\ Writes = <<[op |-> "writeFile", content |-> fileContent]>>

\* a finished run over three models, the first two of different names
C2_Witness ==
    /\ pc = "exited"
    /\ Logged(stdout, "Components file generated successfully")
    /\ Len(manifest) = 3
    /\ manifest[1].name # manifest[2].name
    /\ Len(Blocks) = 3

\* C3: a schema whose root is not a struct makes parseModelSchemaToRecs
\* throw the unsupported-root error with both arrays still empty; no block
\* is appended for the model and the run ends.
C3_RootMustBeStruct ==
    schema.type \notin {"struct", "none"} =>
        /\ recs.kind = "throw"
        /\ recs.error = "unsupported root schema type"
        /\ recs.str = <<>>
        /\ recs.types = <<>>
        /\ recs.customTypes = <<>>
        /\ pc = "exited"
        /\ Len(SchemaCommands) = index + 1
        /\ Len(Blocks) = index
        /\ Writes = <<>>

\* a tuple root for the second model
C3_Witness ==
    /\ schema.type = "tuple"
    /\ index = 1
    /\ pc = "exited"

Uncaught == Logged(stderr, "uncaught exception")

WrongArguments ==
    /\ exitCode = 1
    /\ stdout = <<"Usage">>
    /\ stderr = <<>>
    /\ execLog = <<>>
    /\ fsLog = <<>>

SozoUnavailable ==
    Logged(stderr, "unable to find sozo") =>
        /\ manifest = <<>>
        /\ fsLog = <<>>
        /\ execLog = <<SozoCheckCommand>>
        /\ fileContent = <<>>

\* C9 as stated: every run with four arguments ends with status 0, and a
\* run with a missing or extra argument prints the usage and ends with
\* status 1 before any command or file access.
C9_FourArgumentsExitZero ==
    pc = "exited" =>
        IF argvLength = 6
        THEN exitCode = 0 /\ SozoUnavailable
        ELSE WrongArguments

\* C9 amended: a run with four arguments ends with status 0 when it
\* succeeds, when sozo is missing (nothing read, fetched or written) and
\* when the fetch, parse or translation of a model fails, and with status
\* 1, nothing written, when the manifest cannot be loaded or a model has no
\* name, which are exceptions nothing catches; a run with a missing or
\* extra argument prints the usage and ends with status 1 before any
\* command or file access.
C9_ExitStatus ==
    IF pc = "exited"
    THEN IF argvLength = 6
         THEN /\ exitCode = (IF Uncaught THEN 1 ELSE 0)
              /\ Uncaught => Writes = <<>>
              /\ SozoUnavailable
         ELSE WrongArguments
    ELSE exitCode = NotExited

\* sozo is missing in a run with four arguments
C9_Witness ==
    /\ pc = "exited"
    /\ argvLength = 6
    /\ exitCode = 0
    /\ stderr = <<"unable to find sozo">>

====
